---- MODULE Spec2Model ----
(***************************************************************************)
(* Model of the banking-operations analysis code: the transaction search   *)
(* of src/src/services.py, the category report of src/src/reports.py and   *)
(* the card summary of src/src/views.py.                                   *)
(*                                                                         *)
(* Conventions.                                                            *)
(*  - a text is a sequence of one-character strings, <<"T","a","x","i">>;  *)
(*  - a missing cell (pandas NaN) is NaN, a dictionary key that is not     *)
(*    there is Absent; both are one-element sequences holding a word, so   *)
(*    they differ from every text;                                         *)
(*  - a number cell is a record [k |-> "num", v |-> n]; an amount counts   *)
(*    ten-thousandths of a rouble, so that a kopeck is 100 and the two     *)
(*    decimals kept by round(x, 2) are the multiples of 100; NaN and       *)
(*    non-numeric text have k = "nan" / "text";                            *)
(*  - a timestamp is <<year, month, day, second of the day>>; NaT is <<>>; *)
(*  - a table (DataFrame) is a sequence of rows; a row keeps its index     *)
(*    label in the field idx.                                              *)
(***************************************************************************)
EXTENDS Integers, Sequences, FiniteSets, TLC

VARIABLES
    pc,           \* position of the call being modelled: "call" or "done"
    transactions, \* simple_search_transactions: the list of dictionaries
    search_query, \* simple_search_transactions: the query string
    found,        \* simple_search_transactions: the list that is dumped to JSON
    table,        \* the DataFrame handed to a report or to the card summary
    columns,      \* the column names that DataFrame has
    date_dtype,   \* TRUE when its operation-date column has a datetime dtype
    category,     \* spending_by_category: the category argument
    date,         \* spending_by_category: the date argument
    now,          \* what datetime.now() returns during the call
    end_date,     \* spending_by_category: the window end the call computed
    report,       \* spending_by_category: the rows returned
    raised,       \* TRUE when the call ended with an exception
    writes,       \* save_report_to_file: the write attempts made so far
    cards,        \* analyze_card_data: the list of card summaries
    top_n,        \* get_top_transactions: the number of entries asked for
    top,          \* get_top_transactions: the list returned
    time_str,     \* get_greeting, generate_main_page_json: the time argument
    greeting,     \* get_greeting: the label returned
    file,         \* what is found at OPERATIONS_FILEPATH
    settings,     \* what is found at the path of user_settings.json
    response,     \* generate_main_page_json: the dictionary dumped to JSON
    calls,        \* the quote providers called so far, in order
    op,           \* the function called, where a specification covers several
    env,          \* what the surroundings do during the call (service, disk)
    first,        \* the value the call returned
    second,       \* the value a second call with the same arguments returned
    sort_order,   \* the order the sort of get_top_transactions came out with
    requests,     \* the HTTP requests issued so far
    args          \* the argument of the call, where no other variable holds it

pageVars == <<top_n, top, time_str, greeting, file, settings, response, calls>>

callVars == <<op, env, first, second, sort_order, requests, args>>

vars == <<pc, transactions, search_query, found, table, columns, date_dtype,
          category, date, now, end_date, report, raised, writes, cards,
          top_n, top, time_str, greeting, file, settings, response, calls,
          op, env, first, second, sort_order, requests, args>>

(***************************************************************************)
(* Bounds.                                                                 *)
(***************************************************************************)
MaxSearchRows == 2

MaxRows == 2

MaxCardRows == 3

(***************************************************************************)
(* Values.                                                                 *)
(***************************************************************************)
NaN == <<"NaN">>

Absent == <<"absent">>

NaT == <<>>

NoneDate == <<>>

Num(n) == [k |-> "num", v |-> n]

NaNNum == [k |-> "nan", v |-> 0]

TextNum == [k |-> "text", v |-> 0]

NoneNum == [k |-> "none", v |-> 0]

\* the sentinel texts
NoDescription == <<"no description">>

\* pd.notna on a cell or on the None that dict.get returns for a missing key
NotNaText(x) == x # NaN /\ x # Absent

NotNaNum(x) == x.k = "num"

NotNaDate(x) == x # NaT

(***************************************************************************)
(* Text: str(), str.lower() and the substring test.                        *)
(***************************************************************************)
LowerChar(c) ==
    CASE c = "A" -> "a"
      [] c = "F" -> "f"
      [] c = "N" -> "n"
      [] c = "T" -> "t"
      [] c = "X" -> "x"
      [] OTHER -> c

Lower(s) == [i \in 1..Len(s) |-> LowerChar(s[i])]

\* str(x): a NaN cell reads "nan"
Str(x) == IF x = NaN THEN <<"n", "a", "n">> ELSE x

\* Python's `needle in haystack` for two strings
Contains(haystack, needle) ==
    \E i \in 0..(Len(haystack) - Len(needle)) :
        SubSeq(haystack, i + 1, i + Len(needle)) = needle

\* dict.get(key, default)
Get(value, default) == IF value = Absent THEN default ELSE value

(***************************************************************************)
(* Formatting shared by the search and the top list.                       *)
(***************************************************************************)
\* Timestamp.strftime("%d.%m.%Y")
StrfDay(ts) == <<ts[3], ts[2], ts[1]>>

\* an amount of r roubles and k kopecks
Rub(r, k) == r * 10000 + k * 100

\* round(x, 2): to the nearest kopeck, a tie to the even kopeck
Round2(x) ==
    LET q == x \div 100
        r == x % 100
    IN  IF r < 50 THEN q * 100
        ELSE IF r > 50 THEN (q + 1) * 100
        ELSE IF q % 2 = 0 THEN q * 100 ELSE (q + 1) * 100

\* "Category (MCC)" when both are there, else the one that is, else the sentinel
CategoryDisplay(category_val, mcc_val) ==
    IF NotNaText(category_val) /\ NotNaNum(mcc_val)
    THEN [kind |-> "both", cat |-> category_val, mcc |-> mcc_val]
    ELSE IF NotNaText(category_val)
         THEN [kind |-> "cat", cat |-> category_val, mcc |-> NaNNum]
         ELSE IF NotNaNum(mcc_val)
              THEN [kind |-> "mcc", cat |-> <<>>, mcc |-> mcc_val]
              ELSE [kind |-> "unknown", cat |-> <<>>, mcc |-> NaNNum]

(***************************************************************************)
(* services.py: simple_search_transactions                                 *)
(***************************************************************************)
\* the test of line 125 with the operands of `in` exchanged
SearchMatches_Exchanged(transaction, lower_search_query) ==
    LET description == Lower(Str(Get(transaction.desc, <<>>)))
        cat == Lower(Str(Get(transaction.cat, <<>>)))
    IN  Contains(lower_search_query, description) \/ Contains(lower_search_query, cat)

\* the test of line 125
SearchMatches(transaction, lower_search_query) ==
    LET description == Lower(Str(Get(transaction.desc, <<>>)))
        cat == Lower(Str(Get(transaction.cat, <<>>)))
    IN  Contains(description, lower_search_query) \/ Contains(cat, lower_search_query)

\* the dictionary appended for a matching transaction
SearchRecord(transaction) ==
    [date |-> IF NotNaDate(transaction.date) THEN StrfDay(transaction.date) ELSE NoneDate,
     amount |-> IF NotNaNum(transaction.amount)
                THEN Num(Round2(transaction.amount.v)) ELSE NoneNum,
     category |-> CategoryDisplay(transaction.cat, transaction.mcc),
     description |-> Get(transaction.desc, NoDescription)]

\* the loop of lines 121-146 inserting at the front instead of appending
RECURSIVE SearchLoop_Front(_, _, _)
SearchLoop_Front(ts, lower_search_query, n) ==
    IF n = 0 THEN <<>>
    ELSE LET found_transactions == SearchLoop_Front(ts, lower_search_query, n - 1)
         IN  IF SearchMatches(ts[n], lower_search_query)
             THEN <<SearchRecord(ts[n])>> \o found_transactions
             ELSE found_transactions

\* the loop of lines 121-146 over the first n transactions
RECURSIVE SearchLoop(_, _, _)
SearchLoop(ts, lower_search_query, n) ==
    IF n = 0 THEN <<>>
    ELSE LET found_transactions == SearchLoop(ts, lower_search_query, n - 1)
         IN  IF SearchMatches(ts[n], lower_search_query)
             THEN Append(found_transactions, SearchRecord(ts[n]))
             ELSE found_transactions

simple_search_transactions(ts, query) == SearchLoop(ts, Lower(query), Len(ts))

(***************************************************************************)
(* Timestamps.                                                             *)
(***************************************************************************)
\* a <= b for two timestamps
TsLeq(a, b) ==
    \/ a[1] < b[1]
    \/ a[1] = b[1] /\ a[2] < b[2]
    \/ a[1] = b[1] /\ a[2] = b[2] /\ a[3] < b[3]
    \/ a[1] = b[1] /\ a[2] = b[2] /\ a[3] = b[3] /\ a[4] <= b[4]

IsLeap(y) == (y % 4 = 0 /\ y % 100 # 0) \/ y % 400 = 0

DaysInMonth(y, m) ==
    IF m = 2 THEN (IF IsLeap(y) THEN 29 ELSE 28)
    ELSE IF m \in {4, 6, 9, 11} THEN 30 ELSE 31

\* ts - pd.DateOffset(months=n): the same day and time n calendar months
\* earlier, the day moved back to the last day of a shorter month
MinusMonths(ts, n) ==
    LET months == ts[1] * 12 + (ts[2] - 1) - n
        y == months \div 12
        m == (months % 12) + 1
        d == IF ts[3] > DaysInMonth(y, m) THEN DaysInMonth(y, m) ELSE ts[3]
    IN  <<y, m, d, ts[4]>>

\* Series.dt.strftime('%Y-%m-%d %H:%M:%S')
StrfSeconds(ts) ==
    <<ts[1], ts[2], ts[3], ts[4] \div 3600, (ts[4] % 3600) \div 60, ts[4] % 60>>

(***************************************************************************)
(* Tables.  The columns are named by the words below:                      *)
(*   "date" 'Дата операции', "category" 'Категория', "amount" 'Сумма       *)
(*   операции', "description" 'Описание', "mcc" 'MCC', "card" 'Номер       *)
(*   карты'.                                                               *)
(***************************************************************************)
\* the rows of a DataFrame with their index labels (a RangeIndex from 1)
Frame(df) ==
    [i \in 1..Len(df) |->
        [idx |-> i, date |-> df[i].date, cat |-> df[i].cat, amount |-> df[i].amount,
         desc |-> df[i].desc, mcc |-> df[i].mcc]]

\* df[mask]: the first n rows whose entry in the mask is TRUE, in their order
RECURSIVE FilterRows(_, _, _)
FilterRows(rows, mask, n) ==
    IF n = 0 THEN <<>>
    ELSE IF mask[n]
         THEN Append(FilterRows(rows, mask, n - 1), rows[n])
         ELSE FilterRows(rows, mask, n - 1)

\* DataFrame.empty: no rows or no columns
IsEmpty(df, cols) == Len(df) = 0 \/ cols = {}

\* pd.to_numeric(x, errors='coerce') on one cell
ToNumeric(x) == IF x.k = "num" THEN x ELSE NaNNum

(***************************************************************************)
(* reports.py: spending_by_category                                        *)
(***************************************************************************)
\* the date argument: None, '', 'YYYY-MM-DD HH:MM:SS', 'YYYY-MM-DD' or a
\* string that is no date; ts is the instant a dated string writes down
NoDate == [kind |-> "none", ts |-> NaT]

EmptyDate == [kind |-> "empty", ts |-> NaT]

Garbage == [kind |-> "garbage", ts |-> NaT]

FullDate(ts) == [kind |-> "full", ts |-> ts]

DateOnly(y, m, d) == [kind |-> "dateonly", ts |-> <<y, m, d, 0>>]

\* datetime.strptime(s, "%Y-%m-%d %H:%M:%S"): the string has to spell the date
\* and the time; anything else is a ValueError
Strptime(s) ==
    IF s.kind = "full" THEN [ok |-> TRUE, value |-> s.ts]
    ELSE [ok |-> FALSE, value |-> NaT]

\* lines 68-75 without the except clause
EndDate_NoExcept(date_arg, clock) ==
    IF date_arg.kind \notin {"none", "empty"}
    THEN LET parsed == Strptime(date_arg)
         IN  [raised |-> ~parsed.ok, value |-> parsed.value]
    ELSE [raised |-> FALSE, value |-> clock]

\* lines 68-75: the end of the period
EndDate(date_arg, clock) ==
    IF date_arg.kind \notin {"none", "empty"}
    THEN LET parsed == Strptime(date_arg)
         IN  IF parsed.ok THEN [raised |-> FALSE, value |-> parsed.value]
             ELSE [raised |-> FALSE, value |-> clock]
    ELSE [raised |-> FALSE, value |-> clock]

\* lines 85-88 with the start of the window left out
InPeriod_OpenStart(ts, start_date, end) ==
    ts # NaT /\ ~TsLeq(ts, start_date) /\ TsLeq(ts, end)

\* lines 85-88: start_date <= ts <= end_date, false for NaT
InPeriod(ts, start_date, end) ==
    ts # NaT /\ TsLeq(start_date, ts) /\ TsLeq(ts, end)

\* line 112 keeping the zero amounts
IsExpense_OrZero(amount) == amount.k = "num" /\ amount.v <= 0

\* lines 109-112: the coerced amount is a number below zero
IsExpense(amount) == ToNumeric(amount).k = "num" /\ ToNumeric(amount).v < 0

\* line 100: the category, as text, lowercased, equals the lowercased argument
SameCategory(cat, category_arg) == Lower(Str(cat)) = Lower(category_arg)

Outcome(r, e, rows) == [raised |-> r, end_date |-> e, rows |-> rows]

\* the body of spending_by_category, lines 60-122
spending_by_category(df, cols, dtype_ok, category_arg, date_arg, clock) ==
    IF IsEmpty(df, cols) THEN Outcome(FALSE, NaT, <<>>)
    ELSE
    LET end == EndDate(date_arg, clock)
    IN
    IF end.raised THEN Outcome(TRUE, NaT, <<>>)
    ELSE
    LET start_date == MinusMonths(end.value, 3)
        in_period == [i \in 1..Len(df) |-> InPeriod(df[i].date, start_date, end.value)]
        filtered_by_date_df == FilterRows(Frame(df), in_period, Len(df))
        in_category ==
            [i \in 1..Len(filtered_by_date_df) |->
                SameCategory(filtered_by_date_df[i].cat, category_arg)]
        filtered_by_category_df ==
            FilterRows(filtered_by_date_df, in_category, Len(filtered_by_date_df))
        is_expense ==
            [i \in 1..Len(filtered_by_category_df) |->
                IsExpense(filtered_by_category_df[i].amount)]
        expenses_df ==
            FilterRows(filtered_by_category_df, is_expense, Len(filtered_by_category_df))
    IN
    IF "date" \notin cols \/ ~dtype_ok THEN Outcome(FALSE, end.value, <<>>)
    ELSE IF filtered_by_date_df = <<>> THEN Outcome(FALSE, end.value, <<>>)
    ELSE IF "category" \notin cols THEN Outcome(FALSE, end.value, <<>>)
    ELSE IF filtered_by_category_df = <<>> THEN Outcome(FALSE, end.value, <<>>)
    ELSE IF "amount" \notin cols THEN Outcome(FALSE, end.value, <<>>)
    ELSE IF expenses_df = <<>> THEN Outcome(FALSE, end.value, <<>>)
    ELSE IF ~({"description", "mcc"} \subseteq cols)
         THEN Outcome(TRUE, end.value, <<>>)
         ELSE Outcome(FALSE, end.value, expenses_df)

(***************************************************************************)
(* reports.py: save_report_to_file                                         *)
(***************************************************************************)
\* lines 33-39: the DataFrame as a list of records, timestamps as strings
DataToSave(rows) ==
    [i \in 1..Len(rows) |->
        [idx |-> rows[i].idx, date |-> StrfSeconds(rows[i].date), cat |-> rows[i].cat,
         amount |-> rows[i].amount, desc |-> rows[i].desc, mcc |-> rows[i].mcc]]

\* lines 22-30: the default file is named after the function and the time
DefaultFile(func_name, clock) == [name |-> func_name, stamp |-> clock]

(***************************************************************************)
(* reports.py: save_report_to_file; decorators.py: log_report_to_file.     *)
(* A decorated call is followed through its wrappers: the state of the     *)
(* reports directory ("ok": there and writable; "no_directory": not there; *)
(* "cannot_create": not there and makedirs fails; "write_fails": there,    *)
(* open fails), the write attempts so far, the value and who raised.       *)
(***************************************************************************)
\* a result: a DataFrame or a list by its records, a dictionary by its items
Value(kind, items) == [kind |-> kind, items |-> items]

NoValue == Value("none", <<>>)

\* the state of a call: by is "no" or names who raised
CallState(by, value, attempts, disk) ==
    [by |-> by, value |-> value, writes |-> attempts, disk |-> disk]

\* os.makedirs(dir, exist_ok=True)
MakedirsRaises(disk) == disk = "cannot_create"

AfterMakedirs(disk) == IF disk = "no_directory" THEN "ok" ELSE disk

\* open(path, 'w')
OpenSucceeds(disk) == disk = "ok"

\* no filepath given to the decorator
NoPath == [name |-> "", stamp |-> NaT]

\* the path given to the decorator of get_supermarket_expenses_report
SupermarketFile == [name |-> "supermarket_expenses_report.json", stamp |-> NaT]

\* one write attempt: the file opened, the data for json.dump, and whether
\* the file was written
Attempt(path, data, ok) == [file |-> path, data |-> data, ok |-> ok]

\* lines 33-39 of reports.py for any result
SavedData(value) ==
    IF value.kind = "frame" THEN DataToSave(value.items) ELSE value.items

\* the wrapper of save_report_to_file(filepath) around a call that ended in
\* the state called: makedirs (line 29) is outside the try, open and
\* json.dump (lines 41-48) are inside
save_report_to_file(filepath, func_name, called, clock) ==
    IF called.by # "no" THEN called
    ELSE IF filepath = NoPath /\ MakedirsRaises(called.disk)
    THEN CallState("save_report_to_file", NoValue, called.writes, called.disk)
    ELSE
    LET disk == IF filepath = NoPath THEN AfterMakedirs(called.disk) ELSE called.disk
        final_filepath ==
            IF filepath = NoPath THEN DefaultFile(func_name, clock) ELSE filepath
    IN  CallState("no", called.value,
                  Append(called.writes,
                         Attempt(final_filepath, SavedData(called.value), OpenSucceeds(disk))),
                  disk)

\* lines 29-35 of decorators.py: an empty DataFrame, an empty list, or a
\* value that is false
IsEmptyResult(value) == value.items = <<>>

\* lines 55-67 of decorators.py: in a list of records a missing value is
\* written as ""
Processed(value) ==
    IF value.kind = "dict" THEN value.items
    ELSE [i \in 1..Len(value.items) |->
            [name |-> IF value.items[i].name = NaN THEN <<>> ELSE value.items[i].name]]

\* the default file of decorators.py, lines 44-46
LogDefaultFile(func_name, clock) ==
    [prefix |-> "reports_", name |-> func_name, stamp |-> clock]

\* the wrapper of log_report_to_file(file_name): an empty result is returned
\* at once (lines 37-38); makedirs (line 41) is outside the try
log_report_to_file(file_name, func_name, called, clock) ==
    IF called.by # "no" THEN called
    ELSE IF IsEmptyResult(called.value) THEN called
    ELSE IF MakedirsRaises(called.disk)
    THEN CallState("log_report_to_file", NoValue, called.writes, called.disk)
    ELSE
    LET disk == AfterMakedirs(called.disk)
        actual_file_name ==
            IF file_name = NoPath THEN LogDefaultFile(func_name, clock) ELSE file_name
    IN  CallState("no", called.value,
                  Append(called.writes,
                         Attempt(actual_file_name, Processed(called.value),
                                 OpenSucceeds(disk))),
                  disk)

\* 'Супермаркеты'
Supermarkets == <<"m", "a", "r", "k", "e", "t", "s">>

\* the body of spending_by_category as the call a wrapper is around
SpendingCall(df, cols, dtype_ok, category_arg, date_arg, clock, disk) ==
    LET outcome == spending_by_category(df, cols, dtype_ok, category_arg, date_arg, clock)
    IN  IF outcome.raised THEN CallState("spending_by_category", NoValue, <<>>, disk)
        ELSE CallState("no", Value("frame", outcome.rows), <<>>, disk)

\* spending_by_category as decorated at line 55 of reports.py
decorated_spending_by_category(df, cols, dtype_ok, category_arg, date_arg, clock, disk) ==
    save_report_to_file(NoPath, "spending_by_category",
                        SpendingCall(df, cols, dtype_ok, category_arg, date_arg, clock, disk),
                        clock)

\* get_supermarket_expenses_report, lines 126-130: the decorated
\* spending_by_category inside the wrapper with the fixed file
get_supermarket_expenses_report(df, cols, dtype_ok, date_arg, clock, disk) ==
    save_report_to_file(SupermarketFile, "get_supermarket_expenses_report",
                        decorated_spending_by_category(df, cols, dtype_ok, Supermarkets,
                                                       date_arg, clock, disk),
                        clock)

(***************************************************************************)
(* views.py: analyze_card_data                                             *)
(***************************************************************************)
\* the code point order of the characters of a card number
CharRank(c) ==
    CASE c = "*" -> 42
      [] c = "1" -> 49
      [] c = "2" -> 50
      [] c = "4" -> 52

\* a < b for two texts, as Python orders strings
TextLess(a, b) ==
    \/ Len(a) < Len(b) /\ SubSeq(b, 1, Len(a)) = a
    \/ \E i \in 1..Len(a) :
        /\ i <= Len(b)
        /\ SubSeq(a, 1, i - 1) = SubSeq(b, 1, i - 1)
        /\ CharRank(a[i]) < CharRank(b[i])

\* str(card_num)[-4:]
LastFour(card_num) ==
    IF Len(card_num) <= 4 THEN card_num
    ELSE SubSeq(card_num, Len(card_num) - 3, Len(card_num))

Unknown == <<"unknown">>

\* the rows of the table with the card number and the amount
CardFrame(df) == [i \in 1..Len(df) |-> [idx |-> i, card |-> df[i].card, amount |-> df[i].amount]]

\* line 92 without the test of the sign
IsCardExpense_AnySign(row) == ToNumeric(row.amount).k = "num"

\* lines 89-92: the coerced amount is a number below zero
IsCardExpense(row) == ToNumeric(row.amount).k = "num" /\ ToNumeric(row.amount).v < 0

\* Series.sum() of the amounts of the first n rows that belong to the card
RECURSIVE GroupSum(_, _, _)
GroupSum(rows, card_num, n) ==
    IF n = 0 THEN 0
    ELSE GroupSum(rows, card_num, n - 1)
            + (IF rows[n].card = card_num THEN rows[n].amount.v ELSE 0)

Abs(x) == IF x < 0 THEN -x ELSE x

\* groupby('Номер карты'): the keys are the card numbers of the rows, the
\* missing ones dropped, in sorted order
GroupKeys(rows) == {rows[i].card : i \in 1..Len(rows)} \ {NaN}

KthKey(keys, k) ==
    CHOOSE key \in keys : Cardinality({other \in keys : TextLess(other, key)}) = k - 1

\* lines 100-109: the summary of one group
CardSummary(rows, card_num) ==
    LET last_digits == IF card_num # NaN THEN LastFour(card_num) ELSE Unknown
        total_spent == Abs(GroupSum(rows, card_num, Len(rows)))
        cashback == Round2(total_spent \div 100)
    IN  [last_digits |-> last_digits, total_spent |-> Round2(total_spent),
         cashback |-> cashback]

\* the body of analyze_card_data, lines 83-112
analyze_card_data(df, cols) ==
    IF "card" \notin cols \/ "amount" \notin cols THEN <<>>
    ELSE
    LET is_expense == [i \in 1..Len(df) |-> IsCardExpense(df[i])]
        df_filtered_expenses == FilterRows(CardFrame(df), is_expense, Len(df))
        keys == GroupKeys(df_filtered_expenses)
    IN  IF df_filtered_expenses = <<>> THEN <<>>
        ELSE [k \in 1..Cardinality(keys) |->
                CardSummary(df_filtered_expenses, KthKey(keys, k))]

(***************************************************************************)
(* views.py: get_top_transactions                                          *)
(***************************************************************************)
\* 'Кэшбэк', the spelling of line 126
CashbackRequired == "Kehshbehk"

\* 'Кешбэк', the spelling of utils.py and of the test tables
CashbackLoaded == "Keshbehk"

\* the fourteen other names of lines 117-132
OtherTopColumns ==
    {"date", "payment_date", "card", "status", "amount", "currency",
     "payment_amount", "payment_currency", "category", "mcc", "description",
     "bonuses", "investment_rounding", "rounded_amount"}

required_cols == OtherTopColumns \cup {CashbackRequired}

\* the columns of a table that went through load_transactions_from_excel
LoaderColumns == OtherTopColumns \cup {CashbackLoaded}

\* DataFrame.head(n): the first n rows, or all but the last -n when n < 0
HeadRows(rows, n) ==
    IF n >= 0
    THEN SubSeq(rows, 1, IF n < Len(rows) THEN n ELSE Len(rows))
    ELSE SubSeq(rows, 1, IF Len(rows) + n > 0 THEN Len(rows) + n ELSE 0)

\* line 146 with ascending=True
SortedDescending_Ascending(rows, order) ==
    \A i, j \in 1..Len(rows) :
        i < j => Abs(rows[order[i]].amount.v) <= Abs(rows[order[j]].amount.v)

\* line 146: order lists the rows by abs_amount, largest first
SortedDescending(rows, order) ==
    \A i, j \in 1..Len(rows) :
        i < j => Abs(rows[order[i]].amount.v) >= Abs(rows[order[j]].amount.v)

Orderings(n) == {p \in [1..n -> 1..n] : \A i, j \in 1..n : p[i] = p[j] => i = j}

\* the orders sort_values may produce: the default sort is not stable, so rows
\* with the same abs_amount may come out in any order
SortOrders(rows) == {order \in Orderings(Len(rows)) : SortedDescending(rows, order)}

\* lines 141-142: the rows whose amount is a number
TopNumericRows(df) ==
    FilterRows(Frame(df), [i \in 1..Len(df) |-> ToNumeric(df[i].amount).k = "num"], Len(df))

\* lines 149-161: the entry of one row
TopEntry(row) ==
    [date |-> IF NotNaDate(row.date) THEN StrfDay(row.date) ELSE NoneDate,
     amount |-> Round2(row.amount.v),
     category |-> CategoryDisplay(row.cat, row.mcc),
     description |-> IF NotNaText(row.desc) THEN row.desc ELSE NoDescription]

\* the body of get_top_transactions, lines 117-164; order is the order the
\* sort of line 146 came out with
get_top_transactions(df, cols, n, order) ==
    IF ~(required_cols \subseteq cols) THEN <<>>
    ELSE
    LET df_copy == TopNumericRows(df)
        sorted == [k \in 1..Len(df_copy) |-> df_copy[order[k]]]
        top_transactions_df == HeadRows(sorted, n)
    IN  [k \in 1..Len(top_transactions_df) |-> TopEntry(top_transactions_df[k])]

(***************************************************************************)
(* utils.py: get_greeting                                                  *)
(***************************************************************************)
\* a datetime object where a string is expected
DateTimeObject(ts) == [kind |-> "datetime", ts |-> ts]

\* lines 82-89 with the day ending at 17
GreetingOfHour_DayUntil17(hour) ==
    IF 5 <= hour /\ hour < 12 THEN "morning"
    ELSE IF 12 <= hour /\ hour < 17 THEN "day"
    ELSE IF 17 <= hour /\ hour < 23 THEN "evening"
    ELSE "night"

\* lines 82-89: "Доброе утро", "Добрый день", "Добрый вечер", "Доброй ночи"
GreetingOfHour(hour) ==
    IF 5 <= hour /\ hour < 12 THEN "morning"
    ELSE IF 12 <= hour /\ hour < 18 THEN "day"
    ELSE IF 18 <= hour /\ hour < 23 THEN "evening"
    ELSE "night"

\* datetime.hour
HourOf(ts) == ts[4] \div 3600

\* the body of get_greeting: strptime takes a string only (TypeError for
\* anything else), and the ValueError of a string that does not fit the
\* format is logged and raised again
get_greeting(time_arg) ==
    IF time_arg.kind \in {"datetime", "none"}
    THEN [raised |-> "TypeError", value |-> ""]
    ELSE LET dt_object == Strptime(time_arg)
         IN  IF dt_object.ok
             THEN [raised |-> "no", value |-> GreetingOfHour(HourOf(dt_object.value))]
             ELSE [raised |-> "ValueError", value |-> ""]

(***************************************************************************)
(* views.py: load_operations_data, filter_operations_by_month              *)
(***************************************************************************)
\* a table and its columns
Loaded(df, cols) == [df |-> df, cols |-> cols]

\* pd.DataFrame(): no rows, no columns
EmptyDataFrame == Loaded(<<>>, {})

\* pd.to_datetime(cell, format='%d.%m.%Y %H:%M:%S', errors='coerce')
ToDatetime(cell) == IF cell.kind = "full" THEN cell.ts ELSE NaT

\* lines 35-36: the date cells converted, the rows that did not convert dropped
WithDates(df) ==
    LET converted == [i \in 1..Len(df) |-> [df[i] EXCEPT !.date = ToDatetime(df[i].date)]]
    IN  FilterRows(converted, [i \in 1..Len(df) |-> NotNaDate(converted[i].date)], Len(df))

\* the body of load_operations_data: a file that is not there or cannot be
\* read gives the empty table, and so does a sheet without a date column
load_operations_data(f, df, cols) ==
    IF f.state = "missing" THEN EmptyDataFrame
    ELSE IF f.state = "corrupt" THEN EmptyDataFrame
    ELSE IF "date" \notin cols THEN EmptyDataFrame
    ELSE Loaded(WithDates(df), cols)

\* end_date.replace(day=1, hour=0, minute=0, second=0, microsecond=0)
StartOfMonth(ts) == <<ts[1], ts[2], 1, 0>>

\* line 66 with the end of the window left out
InMonth_BeforeEnd(ts, start_of_month, end) ==
    TsLeq(start_of_month, ts) /\ TsLeq(ts, end) /\ ts # end

\* line 66: start_of_month <= ts <= end_date
InMonth(ts, start_of_month, end) == TsLeq(start_of_month, ts) /\ TsLeq(ts, end)

\* the body of filter_operations_by_month; the dates of a loaded table are
\* of the datetime type
filter_operations_by_month(loaded, end_date_str) ==
    LET parsed == Strptime(end_date_str)
    IN  IF ~parsed.ok THEN EmptyDataFrame
        ELSE IF "date" \notin loaded.cols THEN EmptyDataFrame
        ELSE LET start_of_month == StartOfMonth(parsed.value)
                 mask == [i \in 1..Len(loaded.df) |->
                            InMonth(loaded.df[i].date, start_of_month, parsed.value)]
             IN  Loaded(FilterRows(loaded.df, mask, Len(loaded.df)), loaded.cols)

(***************************************************************************)
(* utils.py: load_user_settings; services.py: the quote providers          *)
(***************************************************************************)
\* an entry of the settings object, and the entry that is not there
Entry(list) == [present |-> TRUE, list |-> list]

NoEntry == [present |-> FALSE, list |-> <<>>]

\* a settings file holding a JSON object with these two entries
Settings(currencies, stocks) ==
    [state |-> "object", user_currencies |-> currencies, user_stocks |-> stocks]

\* {}
EmptySettings == Settings(NoEntry, NoEntry)

\* a settings file holding JSON that is not an object
ArraySettings == [state |-> "array", user_currencies |-> NoEntry, user_stocks |-> NoEntry]

\* user_settings.get(key, [])
GetList(entry) == IF entry.present THEN entry.list ELSE <<>>

\* a symbol given as text, and a number where a symbol is expected
Symbol(s) == [k |-> "text", s |-> s]

NumberSymbol == [k |-> "num", s |-> ""]

\* the body of load_user_settings: the parsed file, or {} when the file is
\* not there or is not JSON
load_user_settings(f) ==
    IF f.state \in {"missing", "invalid"} THEN EmptySettings ELSE f

\* the result of a call: the exception raised, if any, and the value
Returned(value) == [raised |-> "no", value |-> value]

Raised(exception) == [raised |-> exception, value |-> <<>>]

\* ",".join(symbols) takes strings only
Joinable(symbols) == \A i \in 1..Len(symbols) : symbols[i].k = "text"

\* the body of get_exchange_rates; api is what the environment does: "nokey"
\* (API_KEY_EXCHANGE not set), "error" (the request fails or the answer is
\* not a success), "malformed" (the answer is not what the code reads) or
\* "rates" (a rate for every symbol)
get_exchange_rates(currencies, api) ==
    IF api = "nokey" THEN Returned(<<>>)
    ELSE IF ~Joinable(currencies) THEN Raised("TypeError")
    ELSE IF api \in {"error", "malformed"} THEN Returned(<<>>)
    ELSE Returned([i \in 1..Len(currencies) |->
                    [base |-> "RUB", target |-> currencies[i].s, rate |-> 90]])

\* the body of get_stock_prices, with the same three environments
get_stock_prices(stocks, api) ==
    IF api = "nokey" THEN Returned(<<>>)
    ELSE IF ~Joinable(stocks) THEN Raised("TypeError")
    ELSE IF api \in {"error", "malformed"} THEN Returned(<<>>)
    ELSE Returned([i \in 1..Len(stocks) |-> [stock |-> stocks[i].s, price |-> 150]])

(***************************************************************************)
(* utils.py: get_currency_rates, get_stock_prices                          *)
(***************************************************************************)
RubSymbol == Symbol("RUB")

\* the symbols other than the base currency, in their order
RECURSIVE WithoutRub(_)
WithoutRub(currencies) ==
    IF currencies = <<>> THEN <<>>
    ELSE IF currencies[1] = RubSymbol THEN WithoutRub(Tail(currencies))
    ELSE <<currencies[1]>> \o WithoutRub(Tail(currencies))

\* lines 106-135 with the handlers of lines 130-135 left out
get_currency_rates_Unhandled(currencies, api) ==
    IF api = "nokey" THEN Returned(<<>>)
    ELSE IF ~Joinable(currencies) THEN Raised("TypeError")
    ELSE IF api = "error" THEN Raised("RequestException")
    ELSE IF api = "malformed" THEN Raised("KeyError")
    ELSE Returned([i \in 1..Len(WithoutRub(currencies)) |->
                    [currency |-> WithoutRub(currencies)[i].s, rate |-> Round2(10000 \div 90)]])

\* the body of utils.get_currency_rates: the join of line 113 is outside the
\* try, the request and the reading of the answer are inside
get_currency_rates(currencies, api) ==
    IF api = "nokey" THEN Returned(<<>>)
    ELSE IF ~Joinable(currencies) THEN Raised("TypeError")
    ELSE IF api \in {"error", "malformed"} THEN Returned(<<>>)
    ELSE Returned([i \in 1..Len(WithoutRub(currencies)) |->
                    [currency |-> WithoutRub(currencies)[i].s, rate |-> Round2(10000 \div 90)]])

\* the body of utils.get_stock_prices: one request for every symbol, each in
\* its own try; a symbol is put into the URL by an f-string, whatever it is
utils_get_stock_prices(stocks, api) ==
    IF api = "nokey" THEN Returned(<<>>)
    ELSE IF api \in {"error", "malformed"} THEN Returned(<<>>)
    ELSE Returned([i \in 1..Len(stocks) |-> [stock |-> stocks[i], price |-> Rub(150, 0)]])

\* the requests a provider issues: none without its key, none when the join
\* raises, one for the list, or one for every symbol in utils.get_stock_prices
RequestsOf(provider, symbols, api) ==
    IF api = "nokey" THEN <<>>
    ELSE IF provider = "utils.get_stock_prices" THEN [i \in 1..Len(symbols) |-> provider]
    ELSE IF ~Joinable(symbols) THEN <<>>
    ELSE <<provider>>

\* what the provider returns
ProviderResult(provider, symbols, api) ==
    CASE provider = "services.get_exchange_rates" -> get_exchange_rates(symbols, api)
      [] provider = "services.get_stock_prices" -> get_stock_prices(symbols, api)
      [] provider = "utils.get_currency_rates" -> get_currency_rates(symbols, api)
      [] provider = "utils.get_stock_prices" -> utils_get_stock_prices(symbols, api)

(***************************************************************************)
(* views.py: generate_main_page_json                                       *)
(***************************************************************************)
\* response_data[key] = value
Put(response_data, key, value) ==
    [x \in DOMAIN response_data \cup {key} |->
        IF x = key THEN value ELSE response_data[x]]

\* "Привет!", the greeting of lines 176-179
Fallback == "hello"

\* lines 171-179: the greeting of the parsed time, or the fallback when
\* parsing or get_greeting raises
GreetingPart(response_data, date_str) ==
    LET dt_obj == Strptime(date_str)
    IN  IF ~dt_obj.ok THEN Put(response_data, "greeting", Fallback)
        ELSE LET result == get_greeting(DateTimeObject(dt_obj.value))
             IN  IF result.raised = "no"
                 THEN Put(response_data, "greeting", result.value)
                 ELSE Put(response_data, "greeting", Fallback)

\* lines 181-195 with the empty branch of line 184 setting the cards alone
OperationsPart_CardsOnly(response_data, date_str, f, df, cols, order) ==
    LET all_operations_df == load_operations_data(f, df, cols)
        filtered_operations_df == filter_operations_by_month(all_operations_df, date_str)
        empty == Put(Put(response_data, "cards", <<>>), "top_transactions", <<>>)
    IN  IF IsEmpty(all_operations_df.df, all_operations_df.cols)
        THEN Put(response_data, "cards", <<>>)
        ELSE IF IsEmpty(filtered_operations_df.df, filtered_operations_df.cols) THEN empty
        ELSE Put(Put(response_data,
                     "cards", analyze_card_data(filtered_operations_df.df,
                                                filtered_operations_df.cols)),
                 "top_transactions", get_top_transactions(filtered_operations_df.df,
                                                          filtered_operations_df.cols, 5, order))

\* lines 181-195: the cards and the top list of the rows of the month, both
\* empty when nothing was loaded or nothing is in the month
OperationsPart(response_data, date_str, f, df, cols, order) ==
    LET all_operations_df == load_operations_data(f, df, cols)
        filtered_operations_df == filter_operations_by_month(all_operations_df, date_str)
        empty == Put(Put(response_data, "cards", <<>>), "top_transactions", <<>>)
    IN  IF IsEmpty(all_operations_df.df, all_operations_df.cols) THEN empty
        ELSE IF IsEmpty(filtered_operations_df.df, filtered_operations_df.cols) THEN empty
        ELSE Put(Put(response_data,
                     "cards", analyze_card_data(filtered_operations_df.df,
                                                filtered_operations_df.cols)),
                 "top_transactions", get_top_transactions(filtered_operations_df.df,
                                                          filtered_operations_df.cols, 5, order))

\* the rows line 194 hands to get_top_transactions
RowsOfMonth(date_str, f, df, cols) ==
    filter_operations_by_month(load_operations_data(f, df, cols), date_str).df

\* the result of generate_main_page_json: the exception raised, if any, the
\* dictionary dumped and the providers called
PageOutcome(r, response_data, called) ==
    [raised |-> r, response |-> response_data, calls |-> called]

\* lines 201-202 and 207-208 with the provider called whatever the list is
ProviderCalls_Unconditional(symbols, provider) == <<provider>>

\* lines 201-202 and 207-208: the provider is called, once, when the list of
\* the settings is not empty
ProviderCalls(symbols, provider) == IF symbols # <<>> THEN <<provider>> ELSE <<>>

\* lines 197-211: the settings are loaded, then the quotes of their symbols
\* are asked for, only when there are symbols
QuotesPart(response_data, f, exchange_api, stock_api) ==
    LET user_settings == load_user_settings(f)
        user_currencies == GetList(user_settings.user_currencies)
        user_stocks == GetList(user_settings.user_stocks)
        rates == get_exchange_rates(user_currencies, exchange_api)
        prices == get_stock_prices(user_stocks, stock_api)
        called_settings == <<"load_user_settings">>
        called_rates == called_settings \o ProviderCalls(user_currencies, "get_exchange_rates")
        called_stocks == called_rates \o ProviderCalls(user_stocks, "get_stock_prices")
        with_rates == Put(response_data, "currency_rates",
                          IF user_currencies # <<>> THEN rates.value ELSE <<>>)
    IN  IF user_settings.state = "array"
        THEN PageOutcome("AttributeError", response_data, called_settings)
        ELSE IF user_currencies # <<>> /\ rates.raised # "no"
        THEN PageOutcome(rates.raised, response_data, called_rates)
        ELSE IF user_stocks # <<>> /\ prices.raised # "no"
        THEN PageOutcome(prices.raised, with_rates, called_stocks)
        ELSE IF user_stocks # <<>>
        THEN PageOutcome("no", Put(with_rates, "stock_prices", prices.value), called_stocks)
        ELSE PageOutcome("no", Put(with_rates, "stock_prices", <<>>), called_stocks)

\* the body of generate_main_page_json
generate_main_page_json(date_str, f, df, cols, order, settings_file, exchange_api, stock_api) ==
    QuotesPart(OperationsPart(GreetingPart(<<>>, date_str), date_str, f, df, cols, order),
               settings_file, exchange_api, stock_api)

(***************************************************************************)
(* What the table functions do to the table they are given.  A call works  *)
(* on objects: the caller's table under the name "df" and the tables the   *)
(* call makes; an assignment to a column or an in-place dropna changes the *)
(* object its name stands for.                                             *)
(***************************************************************************)
Objects(df, cols) == [name \in {"df"} |-> Loaded(df, cols)]

\* an assignment without .copy(): new stands for the object src stands for
DfCopy_SameObject(objects, src, new) == [ref |-> src, objects |-> objects]

\* new = src.copy(): new stands for a new object with the content of src
DfCopy(objects, src, new) == [ref |-> new, objects |-> Put(objects, new, objects[src])]

\* new = src[mask]: a new object with the rows of src that the mask keeps
DfSelect(objects, src, mask, new) ==
    [ref |-> new,
     objects |-> Put(objects, new,
                     Loaded(FilterRows(objects[src].df, mask, Len(objects[src].df)),
                            objects[src].cols))]

\* obj['Сумма операции'] = pd.to_numeric(obj['Сумма операции'], errors='coerce')
\* obj.dropna(subset=['Сумма операции'], inplace=True)
CoerceAndDrop(objects, ref) ==
    LET rows == objects[ref].df
        coerced == [i \in 1..Len(rows) |-> [rows[i] EXCEPT !.amount = ToNumeric(@)]]
        kept == FilterRows(coerced, [i \in 1..Len(rows) |-> coerced[i].amount.k = "num"],
                           Len(rows))
    IN  [objects EXCEPT ![ref] = Loaded(kept, @.cols)]

\* obj[col] = ... for a column that may be new
SetColumn(objects, ref, col) ==
    [objects EXCEPT ![ref] = Loaded(@.df, @.cols \cup {col})]

\* analyze_card_data, lines 88-90
AnalyzeObjects(df, cols) ==
    IF "card" \notin cols \/ "amount" \notin cols THEN Objects(df, cols)
    ELSE LET df_copy == DfCopy(Objects(df, cols), "df", "df_copy")
         IN  CoerceAndDrop(df_copy.objects, df_copy.ref)

\* get_top_transactions, lines 139-144
TopObjects(df, cols) ==
    IF ~(required_cols \subseteq cols) THEN Objects(df, cols)
    ELSE LET df_copy == DfCopy(Objects(df, cols), "df", "df_copy")
         IN  SetColumn(CoerceAndDrop(df_copy.objects, df_copy.ref), df_copy.ref, "abs_amount")

\* filter_operations_by_month, line 67
FilterObjects(df, cols, end_date_str) ==
    LET parsed == Strptime(end_date_str)
    IN  IF ~parsed.ok \/ "date" \notin cols THEN Objects(df, cols)
        ELSE LET mask == [i \in 1..Len(df) |->
                            InMonth(df[i].date, StartOfMonth(parsed.value), parsed.value)]
                 selected == DfSelect(Objects(df, cols), "df", mask, "selected")
             IN  DfCopy(selected.objects, selected.ref, "filtered_df").objects

\* spending_by_category, lines 85-113
SpendingObjects(df, cols, dtype_ok, category_arg, date_arg, clock) ==
    LET end == EndDate(date_arg, clock)
    IN  IF IsEmpty(df, cols) \/ end.raised \/ "date" \notin cols \/ ~dtype_ok
        THEN Objects(df, cols)
        ELSE
        LET in_period == [i \in 1..Len(df) |->
                            InPeriod(df[i].date, MinusMonths(end.value, 3), end.value)]
            by_date == DfSelect(Objects(df, cols), "df", in_period, "by_date")
            filtered_by_date_df == DfCopy(by_date.objects, by_date.ref, "filtered_by_date_df")
            date_rows == filtered_by_date_df.objects[filtered_by_date_df.ref].df
            in_category == [i \in 1..Len(date_rows) |->
                                SameCategory(date_rows[i].cat, category_arg)]
            by_category == DfSelect(filtered_by_date_df.objects, filtered_by_date_df.ref,
                                    in_category, "by_category")
            filtered_by_category_df ==
                DfCopy(by_category.objects, by_category.ref, "filtered_by_category_df")
        IN  IF date_rows = <<>> \/ "category" \notin cols THEN filtered_by_date_df.objects
            ELSE IF filtered_by_category_df.objects[filtered_by_category_df.ref].df = <<>>
                    \/ "amount" \notin cols
                 THEN filtered_by_category_df.objects
                 ELSE CoerceAndDrop(filtered_by_category_df.objects,
                                    filtered_by_category_df.ref)

\* the caller's table as the call left it
InputAfter(objects) == objects["df"]

(***************************************************************************)
(* Inputs of the search.                                                   *)
(***************************************************************************)
SearchDescriptions == {Absent, NaN, <<"T", "a", "x", "i">>, <<"c", "a", "f", "e">>}

SearchCategories == {NaN, <<"F", "o", "o", "d">>, <<"t", "a", "x", "i">>}

\* the remaining cells of a row, varied together
SearchCells ==
    {[date |-> <<2024, 7, 5, 0>>, amount |-> Num(-Rub(1, 50)), mcc |-> Num(5411)],
     [date |-> NaT, amount |-> NaNNum, mcc |-> NaNNum]}

SearchRows ==
    {[desc |-> d, cat |-> c, date |-> x.date, amount |-> x.amount, mcc |-> x.mcc] :
        d \in SearchDescriptions, c \in SearchCategories, x \in SearchCells}

SearchQueries ==
    {<<>>, <<"a">>, <<"t", "A", "X">>, <<"f", "o">>, <<"n">>, <<"z">>}

SeqsUpTo(S, n) == UNION {[1..m -> S] : m \in 0..n}

NoTable == <<>>

NoText == <<>>

(***************************************************************************)
(* The search as a state machine: one call on inputs chosen at the start.  *)
(***************************************************************************)
ReportIdle ==
    /\ table = NoTable
    /\ columns = {}
    /\ date_dtype = TRUE
    /\ category = NoText
    /\ date = [kind |-> "none", ts |-> NaT]
    /\ now = NaT
    /\ end_date = NaT
    /\ report = <<>>
    /\ writes = <<>>
    /\ cards = <<>>

SearchIdle ==
    /\ transactions = <<>>
    /\ search_query = NoText
    /\ found = <<>>

NoFile == [state |-> "none"]

CallIdle ==
    /\ op = ""
    /\ env = ""
    /\ first = <<>>
    /\ second = <<>>
    /\ sort_order = <<>>
    /\ requests = <<>>
    /\ args = <<>>

PageIdle ==
    /\ top_n = 0
    /\ top = <<>>
    /\ time_str = [kind |-> "none", ts |-> NaT]
    /\ greeting = ""
    /\ file = NoFile
    /\ settings = NoFile
    /\ response = <<>>
    /\ calls = <<>>

InitSearch ==
    /\ pc = "call"
    /\ CallIdle
    /\ transactions \in SeqsUpTo(SearchRows, MaxSearchRows)
    /\ search_query \in SearchQueries
    /\ found = <<>>
    /\ raised = FALSE
    /\ ReportIdle
    /\ PageIdle

Search ==
    /\ pc = "call"
    /\ found' = simple_search_transactions(transactions, search_query)
    /\ pc' = "done"
    /\ UNCHANGED callVars
    /\ UNCHANGED <<transactions, search_query, table, columns, date_dtype,
                   category, date, now, end_date, report, raised, writes, cards>>
    /\ UNCHANGED pageVars

NextSearch == Search

SpecSearch == InitSearch /\ [][NextSearch]_vars

(***************************************************************************)
(* Properties of the search.                                               *)
(***************************************************************************)
\* the description, read as text and lowercased, contains the lowercased query
DescriptionContains(t, q) == Contains(Lower(Str(Get(t.desc, <<>>))), Lower(q))

\* the category, read as text and lowercased, contains the lowercased query
CategoryContains(t, q) == Contains(Lower(Str(Get(t.cat, <<>>))), Lower(q))

\* the ways to name, for every record of `found`, the transaction it was made
\* from, going through the list from left to right
Provenances ==
    {f \in [1..Len(found) -> 1..Len(transactions)] :
        /\ \A k \in 1..Len(found) : found[k] = SearchRecord(transactions[f[k]])
        /\ \A k \in 1..Len(found) : \A l \in 1..Len(found) : k < l => f[k] < f[l]}

\* the positions of the transactions whose description or category contains q
MatchingPositions ==
    {i \in 1..Len(transactions) :
        DescriptionContains(transactions[i], search_query)
            \/ CategoryContains(transactions[i], search_query)}

\* the k-th of these positions
KthMatching(k) ==
    CHOOSE i \in MatchingPositions :
        Cardinality({j \in MatchingPositions : j <= i}) = k

\* C1 as stated: every record returned comes from a transaction whose
\* description, lowercased, contains the lowercased query.
C1_DescriptionOnly ==
    pc = "done" =>
        \E f \in Provenances :
            \A k \in 1..Len(found) : DescriptionContains(transactions[f[k]], search_query)

\* C1 as amended: every record returned comes from a transaction whose
\* description or category, read as text and lowercased, contains the
\* lowercased query.
C1_DescriptionOrCategory ==
    pc = "done" =>
        \E f \in Provenances :
            \A k \in 1..Len(found) :
                DescriptionContains(transactions[f[k]], search_query)
                    \/ CategoryContains(transactions[f[k]], search_query)

\* C1 witness: a non-empty query returned a transaction for its category
\* alone, next to one that was left out.
C1_Witness ==
    /\ pc = "done"
    /\ search_query = <<"f", "o">>
    /\ Len(transactions) = 2
    /\ Len(found) = 1
    /\ found[1].category.cat = <<"F", "o", "o", "d">>

\* C2: searching with the empty query returns an empty result, whatever the
\* transaction list.
C2_EmptyQueryEmptyResult ==
    (pc = "done" /\ search_query = <<>>) => found = <<>>

\* C3: the result holds exactly one record per matching transaction, in the
\* order of the list; an empty list or no match gives the empty result, and
\* no error is raised.
C3_OnePerMatchInOrder ==
    pc = "done" =>
        /\ ~raised
        /\ Len(found) = Cardinality(MatchingPositions)
        /\ \A k \in 1..Len(found) : found[k] = SearchRecord(transactions[KthMatching(k)])
        /\ (transactions = <<>> \/ MatchingPositions = {}) => found = <<>>

\* C3 witness: a non-empty query returned two different matching
\* transactions.
C3_Witness ==
    /\ pc = "done"
    /\ Len(found) = 2
    /\ found[1] # found[2]
    /\ search_query # <<>>

(***************************************************************************)
(* Inputs of the category report.                                          *)
(***************************************************************************)
ReportColumns == {"date", "category", "amount", "description", "mcc"}

Food == <<"f", "o", "o", "d">>

Taxi == <<"T", "a", "x", "i">>

Shop == <<"s", "h", "o", "p">>

Noon == 12 * 3600

\* reference dates: the end of May (three months back is the leap day) and
\* the middle of July
ReportEndDates == {<<2024, 5, 31, Noon>>, <<2024, 7, 15, 0>>}

\* operation dates: at and around the two ends of the first window
ReportRowDates ==
    {<<2024, 2, 29, Noon - 1>>, <<2024, 2, 29, Noon>>, <<2024, 4, 10, 0>>,
     <<2024, 5, 31, Noon>>, <<2024, 5, 31, Noon + 1>>}

ReportAmounts == {Num(-Rub(5, 0)), Num(0), Num(Rub(1, 0)), TextNum}

ReportRow(d, c, a) == [date |-> d, cat |-> c, amount |-> a, desc |-> Shop, mcc |-> Num(5411)]

ReportRows ==
    {ReportRow(d, c, a) : d \in ReportRowDates, c \in {Food, Taxi}, a \in ReportAmounts}

ReportCategories == {<<"F", "o", "o", "d">>, <<"t", "a", "x", "i">>}

\* the table of the scenario: four expenses of one category
ScenarioTable ==
    <<ReportRow(<<2024, 5, 25, 0>>, Food, Num(-Rub(500, 0))),
      ReportRow(<<2024, 6, 15, 0>>, Food, Num(-Rub(200, 0))),
      ReportRow(<<2024, 7, 1, 0>>, Food, Num(-Rub(100, 0))),
      ReportRow(<<2024, 4, 10, 0>>, Food, Num(-Rub(50, 0)))>>

\* two more tables: a missing category and a credit, and the empty table
MixedTable ==
    <<ReportRow(<<2024, 7, 1, 0>>, NaN, Num(-Rub(7, 0))),
      ReportRow(<<2024, 7, 15, 0>>, Taxi, Num(-Rub(3, 0))),
      ReportRow(<<2024, 7, 15, 1>>, Food, Num(-Rub(2, 0))),
      ReportRow(<<2024, 6, 15, 0>>, Food, Num(Rub(9, 0)))>>

FixedTables == {ScenarioTable, MixedTable, <<>>}

ReportDateArguments ==
    {NoDate, EmptyDate, Garbage, DateOnly(2024, 7, 15), DateOnly(2024, 5, 31),
     FullDate(<<2024, 7, 15, 0>>)}

Clocks == {<<2024, 7, 15, 0>>, <<2024, 7, 15, Noon>>, <<2026, 11, 5, Noon>>}

\* a table that has only the columns cols: the cells of the others are gone
WithoutCell(row, cols) ==
    [date |-> IF "date" \in cols THEN row.date ELSE NaT,
     cat |-> IF "category" \in cols THEN row.cat ELSE Absent,
     amount |-> IF "amount" \in cols THEN row.amount ELSE NaNNum,
     desc |-> IF "description" \in cols THEN row.desc ELSE Absent,
     mcc |-> IF "mcc" \in cols THEN row.mcc ELSE NaNNum]

OnlyColumns(df, cols) == [i \in 1..Len(df) |-> WithoutCell(df[i], cols)]

\* all columns, all but one, or none at all
ColumnSets == {ReportColumns} \cup {ReportColumns \ {c} : c \in ReportColumns} \cup {{}}

(***************************************************************************)
(* The category report as a state machine: one call of the decorated       *)
(* function on inputs chosen at the start.                                 *)
(***************************************************************************)
\* well-formed tables and dates
InitReportTables ==
    /\ table \in SeqsUpTo(ReportRows, MaxRows)
    /\ columns = ReportColumns
    /\ date_dtype = TRUE
    /\ category \in ReportCategories
    /\ date \in {FullDate(d) : d \in ReportEndDates}
    /\ now = <<2026, 11, 5, Noon>>

\* the forms of the date argument, at several times of the clock
InitReportDates ==
    /\ table \in FixedTables
    /\ columns = ReportColumns
    /\ date_dtype = TRUE
    /\ category \in ReportCategories
    /\ date \in ReportDateArguments
    /\ now \in Clocks

\* tables that lack a column
InitReportColumns ==
    /\ columns \in ColumnSets
    /\ \E df \in FixedTables : table = OnlyColumns(df, columns)
    /\ date_dtype \in BOOLEAN
    /\ category \in ReportCategories
    /\ date \in {FullDate(<<2024, 7, 15, 0>>), NoDate}
    /\ now = <<2024, 7, 15, Noon>>

InitReport ==
    /\ pc = "call"
    /\ CallIdle
    /\ InitReportTables \/ InitReportDates \/ InitReportColumns
    /\ end_date = NaT
    /\ report = <<>>
    /\ raised = FALSE
    /\ writes = <<>>
    /\ cards = <<>>
    /\ SearchIdle
    /\ PageIdle

\* the wrapper of save_report_to_file() around spending_by_category
SpendingByCategory ==
    /\ pc = "call"
    /\ LET result == spending_by_category(table, columns, date_dtype, category, date, now)
       IN  /\ raised' = result.raised
           /\ end_date' = result.end_date
           /\ report' = result.rows
           /\ writes' = IF result.raised THEN writes
                        ELSE Append(writes,
                                    [file |-> DefaultFile("spending_by_category", now),
                                     data |-> DataToSave(result.rows)])
    /\ pc' = "done"
    /\ UNCHANGED callVars
    /\ UNCHANGED <<transactions, search_query, found, table, columns, date_dtype,
                   category, date, now, cards>>
    /\ UNCHANGED pageVars

NextReport == SpendingByCategory

SpecReport == InitReport /\ [][NextReport]_vars

(***************************************************************************)
(* Properties of the category report.                                      *)
(***************************************************************************)
\* the calendar: the instant three calendar months before d, for the
\* reference dates and clocks above
ThreeMonthsBefore(d) ==
    CASE d = <<2024, 5, 31, Noon>> -> <<2024, 2, 29, Noon>>
      [] d = <<2024, 5, 31, 0>> -> <<2024, 2, 29, 0>>
      [] d = <<2024, 7, 15, 0>> -> <<2024, 4, 15, 0>>
      [] d = <<2024, 7, 15, Noon>> -> <<2024, 4, 15, Noon>>
      [] d = <<2026, 11, 5, Noon>> -> <<2026, 8, 5, Noon>>

\* the table has the five columns of the report, the dates as datetimes
WellFormedTable == columns = ReportColumns /\ date_dtype

\* row i of the table is an expense of category c dated in [d - 3 months, d]
Qualifies(i, c, d) ==
    /\ table[i].amount.k = "num"
    /\ table[i].amount.v < 0
    /\ table[i].cat \notin {NaN, Absent}
    /\ Lower(table[i].cat) = Lower(c)
    /\ table[i].date # NaT
    /\ TsLeq(ThreeMonthsBefore(d), table[i].date)
    /\ TsLeq(table[i].date, d)

\* the report is made of rows of the table, unchanged
RowsOfTable ==
    \A k \in 1..Len(report) :
        /\ report[k].idx \in 1..Len(table)
        /\ report[k] = Frame(table)[report[k].idx]

\* the report is exactly the rows that qualify for c and d, in table order
ExactlyQualifying(c, d) ==
    /\ RowsOfTable
    /\ {report[k].idx : k \in 1..Len(report)} = {i \in 1..Len(table) : Qualifies(i, c, d)}
    /\ \A k \in 1..Len(report) : \A l \in 1..Len(report) :
            k < l => report[k].idx < report[l].idx

C6_DateOnlyEndsWindow ==
    (pc = "done" /\ date.kind = "dateonly" /\ WellFormedTable) =>
        /\ ~raised
        /\ ExactlyQualifying(category, date.ts)

\* C7: with a date that is absent or cannot be parsed the call does not raise
\* and does what it does for the current time as the end of the window.
C7_FallBackToNow ==
    (pc = "done" /\ date.kind \in {"none", "empty", "garbage"}) =>
        /\ Outcome(raised, end_date, report)
             = spending_by_category(table, columns, date_dtype, category, FullDate(now), now)
        /\ (table # <<>> /\ columns # {}) => end_date = now
        /\ WellFormedTable => (~raised /\ ExactlyQualifying(category, now))

\* C7 witness: a date that is no date, and a report for the three months
\* before the current time.
C7_Witness ==
    /\ pc = "done"
    /\ date = Garbage
    /\ end_date = now
    /\ Len(report) = 3

\* C8: a table that lacks one of the five columns gives an empty report and
\* no exception.
C8_MissingColumnEmptyReport ==
    (pc = "done" /\ columns # ReportColumns) => (~raised /\ report = <<>>)

(***************************************************************************)
(* Inputs of the card summary.                                             *)
(***************************************************************************)
CardColumns == {"card", "amount", CashbackLoaded}

\* two cards, a third that ends in the digits of the first, and no card
CardNumbers ==
    {<<"*", "1", "1", "1", "1">>, <<"*", "2", "2", "2", "2">>,
     <<"4", "*", "1", "1", "1", "1">>, NaN}

CardAmounts == {Num(-Rub(1, 50)), Num(-Rub(2, 25)), Num(Rub(10, 0)), TextNum}

\* the cashback cell that goes with an amount: a rouble, none, or a refund
\* entered below zero
CardCashback(a) ==
    IF a = Num(-Rub(1, 50)) THEN Num(Rub(1, 0))
    ELSE IF a = Num(-Rub(2, 25)) THEN NaNNum
    ELSE Num(-Rub(0, 50))

CardRows ==
    {[card |-> c, amount |-> a, cashback |-> CardCashback(a)] :
        c \in CardNumbers, a \in CardAmounts}

\* a table that has only the columns cols
OnlyCardColumns(df, cols) ==
    [i \in 1..Len(df) |->
        [card |-> IF "card" \in cols THEN df[i].card ELSE Absent,
         amount |-> IF "amount" \in cols THEN df[i].amount ELSE NaNNum,
         cashback |-> NaNNum]]

(***************************************************************************)
(* The card summary as a state machine: one call on a table chosen at the  *)
(* start.                                                                  *)
(***************************************************************************)
InitCards ==
    /\ pc = "call"
    /\ CallIdle
    /\ \/ /\ table \in SeqsUpTo(CardRows, MaxCardRows)
          /\ columns = CardColumns
       \/ /\ columns \in {{"card"}, {"amount"}}
          /\ \E df \in SeqsUpTo(CardRows, 1) : table = OnlyCardColumns(df, columns)
    /\ date_dtype = TRUE
    /\ category = NoText
    /\ date = NoDate
    /\ now = NaT
    /\ end_date = NaT
    /\ report = <<>>
    /\ raised = FALSE
    /\ writes = <<>>
    /\ cards = <<>>
    /\ SearchIdle
    /\ PageIdle

AnalyzeCardData ==
    /\ pc = "call"
    /\ cards' = analyze_card_data(table, columns)
    /\ pc' = "done"
    /\ UNCHANGED callVars
    /\ UNCHANGED <<transactions, search_query, found, table, columns, date_dtype,
                   category, date, now, end_date, report, raised, writes>>
    /\ UNCHANGED pageVars

NextCards == AnalyzeCardData

SpecCards == InitCards /\ [][NextCards]_vars

(***************************************************************************)
(* Properties of the card summary.                                         *)
(***************************************************************************)
\* row i of the table is an expense: its amount is a number below zero
ExpenseRow(i) == table[i].amount.k = "num" /\ table[i].amount.v < 0

\* the sum of the absolute amounts of the rows in S
RECURSIVE SumOfAbs(_)
SumOfAbs(S) ==
    IF S = {} THEN 0
    ELSE LET i == CHOOSE x \in S : TRUE
         IN  Abs(table[i].amount.v) + SumOfAbs(S \ {i})

\* the card numbers that have an expense, and the k-th of them in order
CardsWithExpense ==
    {table[i].card : i \in {j \in 1..Len(table) : ExpenseRow(j)}} \ {NaN}

KthCard(k) ==
    CHOOSE c \in CardsWithExpense :
        Cardinality({other \in CardsWithExpense : TextLess(other, c)}) = k - 1

\* the sum of total_spent over the first n summaries
RECURSIVE SumOfTotals(_)
SumOfTotals(n) == IF n = 0 THEN 0 ELSE SumOfTotals(n - 1) + cards[n].total_spent

\* C9: every card with an expense has one summary, whose total_spent is the
\* sum of the absolute values of the card's amounts below zero; credits and
\* non-numeric amounts add nothing.
C9_TotalSpentPerCard ==
    (pc = "done" /\ columns = CardColumns) =>
        /\ Len(cards) = Cardinality(CardsWithExpense)
        /\ \A k \in 1..Len(cards) :
            /\ cards[k].last_digits = LastFour(KthCard(k))
            /\ cards[k].total_spent =
                 SumOfAbs({i \in 1..Len(table) : ExpenseRow(i) /\ table[i].card = KthCard(k)})

\* C9 witness: a card with two expenses and a credit.
C9_Witness ==
    /\ pc = "done"
    /\ Len(table) = 3
    /\ \A i \in 1..3 : table[i].card = <<"*", "1", "1", "1", "1">>
    /\ table[1].amount = Num(-Rub(1, 50))
    /\ table[2].amount = Num(Rub(10, 0))
    /\ table[3].amount = Num(-Rub(2, 25))
    /\ Len(cards) = 1
    /\ cards[1].total_spent = Rub(3, 75)

\* C10: the total_spent of all summaries add up to the absolute values of
\* all amounts below zero in the table, the rows without a card number
\* included.
C10_Conservation ==
    (pc = "done" /\ columns = CardColumns) =>
        SumOfTotals(Len(cards)) = SumOfAbs({i \in 1..Len(table) : ExpenseRow(i)})

\* the cashback cells of the rows in S added up, a missing one as zero and
\* one below zero by its absolute value
RECURSIVE SumOfCashback(_)
SumOfCashback(S) ==
    IF S = {} THEN 0
    ELSE LET i == CHOOSE x \in S : TRUE
         IN  (IF table[i].cashback.k = "num" THEN Abs(table[i].cashback.v) ELSE 0)
                + SumOfCashback(S \ {i})

\* C12: the cashback of every card summary is the sum of the cashback cells
\* of the card's rows, a missing cell counted as zero and a negative one by
\* its absolute value.
C12_CashbackFromField ==
    (pc = "done" /\ columns = CardColumns) =>
        \A k \in 1..Len(cards) :
            cards[k].cashback =
                SumOfCashback({i \in 1..Len(table) : ExpenseRow(i) /\ table[i].card = KthCard(k)})

(***************************************************************************)
(* The greeting as a state machine: one call of get_greeting on a time     *)
(* string chosen at the start.                                             *)
(***************************************************************************)
\* every hour of a day, at its first second, in its middle and at its last
GreetingTimes ==
    {<<2024, 7, 5, h * 3600 + s>> : h \in 0..23, s \in {0, 1800, 3599}}

GreetingArguments ==
    {FullDate(ts) : ts \in GreetingTimes}
        \cup {Garbage, EmptyDate, NoDate, DateOnly(2024, 7, 5),
              DateTimeObject(<<2024, 7, 5, Noon>>)}

InitGreeting ==
    /\ pc = "call"
    /\ CallIdle
    /\ time_str \in GreetingArguments
    /\ greeting = ""
    /\ raised = FALSE
    /\ top_n = 0
    /\ top = <<>>
    /\ file = NoFile
    /\ settings = NoFile
    /\ response = <<>>
    /\ calls = <<>>
    /\ ReportIdle
    /\ SearchIdle

GetGreeting ==
    /\ pc = "call"
    /\ LET result == get_greeting(time_str)
       IN  /\ greeting' = result.value
           /\ raised' = (result.raised # "no")
    /\ pc' = "done"
    /\ UNCHANGED callVars
    /\ UNCHANGED <<transactions, search_query, found, table, columns, date_dtype,
                   category, date, now, end_date, report, writes, cards>>
    /\ UNCHANGED <<top_n, top, time_str, file, settings, response, calls>>

NextGreeting == GetGreeting

SpecGreeting == InitGreeting /\ [][NextGreeting]_vars

(***************************************************************************)
(* Properties of the greeting.                                             *)
(***************************************************************************)
MorningHours == 5..11

DayHours == 12..17

EveningHours == 18..22

NightHours == {23} \cup 0..4

\* C17: a well-formed time string with hour h gets exactly one label:
\* morning for 5 <= h < 12, day for 12 <= h < 18, evening for 18 <= h < 23,
\* night for h = 23 or h < 5; the four ranges cover the 24 hours once.
C17_GreetingByHour ==
    (pc = "done" /\ time_str.kind = "full") =>
        LET h == HourOf(time_str.ts)
        IN  /\ ~raised
            /\ h \in 0..23
            /\ greeting = "morning" <=> h \in MorningHours
            /\ greeting = "day" <=> h \in DayHours
            /\ greeting = "evening" <=> h \in EveningHours
            /\ greeting = "night" <=> h \in NightHours
            /\ Cardinality({l \in {"morning", "day", "evening", "night"} : greeting = l}) = 1
            /\ Cardinality({S \in {MorningHours, DayHours, EveningHours, NightHours} :
                                h \in S}) = 1

\* C17 witness: the last second before 18:00 is greeted as day.
C17_Witness ==
    /\ pc = "done"
    /\ time_str = FullDate(<<2024, 7, 5, 17 * 3600 + 3599>>)
    /\ greeting = "day"

(***************************************************************************)
(* The top list as a state machine: one call of get_top_transactions on a  *)
(* table, a column set and a number chosen at the start.                   *)
(***************************************************************************)
MaxTopRows == 3

\* three expenses, a credit as large as one of them, a larger credit, and a
\* cell that is not a number
TopAmounts ==
    {Num(-Rub(10, 0)), Num(-Rub(7, 0)), Num(-Rub(3, 0)), Num(Rub(7, 0)),
     Num(Rub(50, 0)), TextNum}

TopRows ==
    {[date |-> <<2024, 7, 5, Noon>>, cat |-> Food, amount |-> a, desc |-> Shop,
      mcc |-> Num(5411)] : a \in TopAmounts}
        \cup {[date |-> NaT, cat |-> NaN, amount |-> a, desc |-> NaN,
               mcc |-> NaNNum] : a \in TopAmounts}

TopNumbers == {-1, 0, 1, 2, 5}

InitTop ==
    /\ pc = "call"
    /\ CallIdle
    /\ table \in SeqsUpTo(TopRows, MaxTopRows)
    /\ columns \in {required_cols, LoaderColumns}
    /\ top_n \in TopNumbers
    /\ top = <<>>
    /\ date_dtype = TRUE
    /\ category = NoText
    /\ date = NoDate
    /\ now = <<2024, 7, 15, 0>>
    /\ end_date = NaT
    /\ report = <<>>
    /\ raised = FALSE
    /\ writes = <<>>
    /\ cards = <<>>
    /\ time_str = NoDate
    /\ greeting = ""
    /\ file = NoFile
    /\ settings = NoFile
    /\ response = <<>>
    /\ calls = <<>>
    /\ SearchIdle

GetTopTransactions ==
    /\ pc = "call"
    /\ \E order \in SortOrders(TopNumericRows(table)) :
        top' = get_top_transactions(table, columns, top_n, order)
    /\ pc' = "done"
    /\ UNCHANGED callVars
    /\ UNCHANGED <<transactions, search_query, found, table, columns, date_dtype,
                   category, date, now, end_date, report, raised, writes, cards>>
    /\ UNCHANGED <<top_n, time_str, greeting, file, settings, response, calls>>

NextTop == GetTopTransactions

SpecTop == InitTop /\ [][NextTop]_vars

(***************************************************************************)
(* Properties of the top list.                                             *)
(***************************************************************************)
\* the rows of the table an entry may come from
SourcesOf(entry) == {i \in 1..Len(table) : /\ ToNumeric(table[i].amount).k = "num"
                                           /\ TopEntry(Frame(table)[i]) = entry}

\* the ways of naming one row of the table for every entry of the result, no
\* row twice
TopProvenances ==
    {f \in [1..Len(top) -> 1..Len(table)] :
        /\ \A k \in 1..Len(top) : f[k] \in SourcesOf(top[k])
        /\ \A k, l \in 1..Len(top) : f[k] = f[l] => k = l}

AbsAmount(i) == Abs(table[i].amount.v)

ExpenseRowsOfTable == {i \in 1..Len(table) : IsExpense(table[i].amount)}

\* C13: every entry of the top list comes from a row whose amount is strictly
\* negative; a credit is never in the list.
C13_OnlyExpenses ==
    pc = "done" =>
        \A k \in 1..Len(top) : \E i \in SourcesOf(top[k]) : table[i].amount.v < 0

\* C14: for N >= 0 the list has at most N entries, its entries come from
\* distinct rows in the order of non-increasing absolute amount, and no
\* expense row left out has a larger absolute amount than a row of the list.
C14_TopNOrdered ==
    (pc = "done" /\ top_n >= 0) =>
        /\ Len(top) <= top_n
        /\ \E f \in TopProvenances :
            /\ \A k, l \in 1..Len(top) : k < l => AbsAmount(f[k]) >= AbsAmount(f[l])
            /\ \A i \in ExpenseRowsOfTable :
                (\A k \in 1..Len(top) : f[k] # i) =>
                    \A k \in 1..Len(top) : AbsAmount(i) <= AbsAmount(f[k])

\* C14 witness: three expenses of different sizes, given smallest first, of
\* which the two largest are returned, largest first.
C14_Witness ==
    /\ pc = "done"
    /\ top_n = 2
    /\ Len(table) = 3
    /\ table[1].amount = Num(-Rub(3, 0))
    /\ table[2].amount = Num(-Rub(7, 0))
    /\ table[3].amount = Num(-Rub(10, 0))
    /\ Len(top) = 2
    /\ top[1].amount = -Rub(10, 0)
    /\ top[2].amount = -Rub(7, 0)

\* C15: the amount of every entry is the absolute value of the amount of its
\* row, so it is never negative.
C15_AbsoluteAmount ==
    pc = "done" =>
        \A k \in 1..Len(top) :
            /\ top[k].amount >= 0
            /\ \E i \in 1..Len(table) :
                /\ ToNumeric(table[i].amount).k = "num"
                /\ top[k].amount = Round2(AbsAmount(i))

\* C16: a table with the columns of the loader (the cashback column spelt as
\* in utils.py) is not rejected: the list has min(N, expense rows) entries.
C16_LoaderTableAccepted ==
    (pc = "done" /\ columns = LoaderColumns /\ top_n >= 0) =>
        Len(top) = IF top_n < Cardinality(ExpenseRowsOfTable)
                   THEN top_n ELSE Cardinality(ExpenseRowsOfTable)

(***************************************************************************)
(* The main page as a state machine: one call of generate_main_page_json   *)
(* on a reference time, an operations file and a settings file chosen at   *)
(* the start; what the quote services answer is chosen during the call.    *)
(***************************************************************************)
MaxMainRows == 2

\* the reference times: the afternoon of the 15th of July, and two that are
\* not in the format
MainDates == {FullDate(<<2024, 7, 15, 14 * 3600>>), Garbage, DateOnly(2024, 7, 15)}

\* date cells of the sheet: in the month of the reference time before it,
\* in the month before, and one that is not a date
InWindowCell == FullDate(<<2024, 7, 10, Noon>>)

BeforeWindowCell == FullDate(<<2024, 6, 30, Noon>>)

MainRow(d, st, c, a) ==
    [date |-> d, status |-> st, card |-> c, amount |-> a, cashback |-> Num(Rub(1, 0)),
     cat |-> Food, mcc |-> Num(5411), desc |-> Shop]

CardOne == <<"*", "1", "1", "1", "1">>

CardTwo == <<"*", "2", "2", "2", "2">>

MainRows ==
    {MainRow(d, st, ca[1], ca[2]) :
        d \in {InWindowCell, BeforeWindowCell}, st \in {"OK", "FAILED"},
        ca \in {<<CardOne, Num(-Rub(10, 0))>>, <<CardTwo, Num(-Rub(7, 0))>>,
                <<CardOne, Num(Rub(50, 0))>>}}
        \cup {MainRow(Garbage, "OK", CardOne, Num(-Rub(3, 0)))}

MainColumnSets == {required_cols, LoaderColumns, LoaderColumns \ {"date"}}

MissingFile == [state |-> "missing"]

CorruptFile == [state |-> "corrupt"]

SheetFile == [state |-> "ok"]

InvalidSettings ==
    [state |-> "invalid", user_currencies |-> NoEntry, user_stocks |-> NoEntry]

MissingSettings ==
    [state |-> "missing", user_currencies |-> NoEntry, user_stocks |-> NoEntry]

MainSettings ==
    {MissingSettings, InvalidSettings, ArraySettings,
     Settings(Entry(<<>>), NoEntry),
     Settings(Entry(<<Symbol("USD")>>), Entry(<<Symbol("AAPL")>>)),
     Settings(Entry(<<NumberSymbol>>), Entry(<<Symbol("AAPL")>>)),
     Settings(NoEntry, Entry(<<NumberSymbol>>))}

Apis == {"nokey", "error", "rates"}

InitMain ==
    /\ pc = "call"
    /\ CallIdle
    /\ time_str \in MainDates
    /\ \/ /\ file \in {MissingFile, CorruptFile}
          /\ table = NoTable
          /\ columns = {}
       \/ /\ file = SheetFile
          /\ table \in SeqsUpTo(MainRows, MaxMainRows)
          /\ columns \in MainColumnSets
    /\ settings \in MainSettings
    /\ response = <<>>
    /\ calls = <<>>
    /\ raised = FALSE
    /\ top_n = 0
    /\ top = <<>>
    /\ greeting = ""
    /\ date_dtype = TRUE
    /\ category = NoText
    /\ date = NoDate
    /\ now = NaT
    /\ end_date = NaT
    /\ report = <<>>
    /\ writes = <<>>
    /\ cards = <<>>
    /\ SearchIdle

\* one call; response is response_data as it stood when the call ended
GenerateMainPageJson ==
    /\ pc = "call"
    /\ \E order \in SortOrders(TopNumericRows(RowsOfMonth(time_str, file, table, columns))),
          exchange_api \in Apis, stock_api \in Apis :
        LET result == generate_main_page_json(time_str, file, table, columns, order,
                                              settings, exchange_api, stock_api)
        IN  /\ response' = result.response
            /\ raised' = (result.raised # "no")
            /\ calls' = result.calls
    /\ pc' = "done"
    /\ UNCHANGED callVars
    /\ UNCHANGED <<transactions, search_query, found, table, columns, date_dtype,
                   category, date, now, end_date, report, writes, cards>>
    /\ UNCHANGED <<top_n, top, time_str, greeting, file, settings>>

NextMain == GenerateMainPageJson

SpecMain == InitMain /\ [][NextMain]_vars

(***************************************************************************)
(* Properties of the main page.                                            *)
(***************************************************************************)
Returns == pc = "done" /\ ~raised

\* the rows of the month of the reference time whose status is OK
OkRowsOfMonth ==
    LET rows == RowsOfMonth(time_str, file, table, columns)
    IN  FilterRows(rows, [i \in 1..Len(rows) |-> rows[i].status = "OK"], Len(rows))

\* C11: the cards and the top list of the response are those of the rows of
\* the month whose status is OK; a row with another status adds to no total
\* and is no entry.
C11_OnlyOkRows ==
    Returns =>
        /\ response["cards"] = analyze_card_data(OkRowsOfMonth, columns)
        /\ \E order \in SortOrders(TopNumericRows(OkRowsOfMonth)) :
            response["top_transactions"] = get_top_transactions(OkRowsOfMonth, columns, 5, order)

\* C18: for a reference time in the format the greeting of the response is
\* the label of its hour, never the fallback.
C18_GreetingOfReferenceTime ==
    (Returns /\ time_str.kind = "full") =>
        /\ response["greeting"] # Fallback
        /\ response["greeting"] = "morning" <=> HourOf(time_str.ts) \in MorningHours
        /\ response["greeting"] = "day" <=> HourOf(time_str.ts) \in DayHours
        /\ response["greeting"] = "evening" <=> HourOf(time_str.ts) \in EveningHours
        /\ response["greeting"] = "night" <=> HourOf(time_str.ts) \in NightHours

ResponseKeys == {"greeting", "cards", "top_transactions", "currency_rates", "stock_prices"}

\* nothing was loaded, or nothing loaded is in the month
NoRowsOfMonth == RowsOfMonth(time_str, file, table, columns) = <<>>

C20_MissingFileSurfaced ==
    (pc = "done" /\ file = MissingFile) =>
        \/ raised
        \/ "error" \in DOMAIN response

(***************************************************************************)
(* The table functions called twice: spending_by_category,                 *)
(* analyze_card_data, get_top_transactions or filter_operations_by_month   *)
(* is called on a table and then again, with the same arguments, on the    *)
(* table as the first call left it.                                        *)
(***************************************************************************)
MaxTwiceRows == 2

TableFunctions ==
    {"spending_by_category", "analyze_card_data", "get_top_transactions",
     "filter_operations_by_month"}

\* rows of July and of June; an expense, a credit of the same size and an
\* amount that is not a number
TwiceRows ==
    {[date |-> d, cat |-> Food, amount |-> a, desc |-> Shop, mcc |-> Num(5411),
      card |-> CardOne] :
        d \in {<<2024, 7, 10, Noon>>, <<2024, 6, 30, Noon>>},
        a \in {Num(-Rub(10, 0)), Num(Rub(10, 0)), TextNum}}

InitTwice ==
    /\ pc = "call"
    /\ op \in TableFunctions
    /\ table \in SeqsUpTo(TwiceRows, MaxTwiceRows)
    /\ columns \in {required_cols, LoaderColumns}
    /\ date_dtype = TRUE
    /\ category = Food
    /\ date \in {FullDate(<<2024, 7, 15, 0>>), NoDate}
    /\ now = <<2024, 7, 15, Noon>>
    /\ time_str = FullDate(<<2024, 7, 15, 14 * 3600>>)
    /\ top_n \in {1, 5}
    /\ first = <<>>
    /\ second = <<>>
    /\ sort_order = <<>>
    /\ env = ""
    /\ requests = <<>>
    /\ args = <<>>
    /\ end_date = NaT
    /\ report = <<>>
    /\ raised = FALSE
    /\ writes = <<>>
    /\ cards = <<>>
    /\ top = <<>>
    /\ greeting = ""
    /\ file = NoFile
    /\ settings = NoFile
    /\ response = <<>>
    /\ calls = <<>>
    /\ SearchIdle

\* what the function op returns for the table and the arguments of the state
OutputOf(order) ==
    CASE op = "spending_by_category" ->
            spending_by_category(table, columns, date_dtype, category, date, now).rows
      [] op = "analyze_card_data" -> analyze_card_data(table, columns)
      [] op = "get_top_transactions" -> get_top_transactions(table, columns, top_n, order)
      [] op = "filter_operations_by_month" ->
            filter_operations_by_month(Loaded(table, columns), time_str).df

\* the objects of the call of op
ObjectsOf ==
    CASE op = "spending_by_category" ->
            SpendingObjects(table, columns, date_dtype, category, date, now)
      [] op = "analyze_card_data" -> AnalyzeObjects(table, columns)
      [] op = "get_top_transactions" -> TopObjects(table, columns)
      [] op = "filter_operations_by_month" -> FilterObjects(table, columns, time_str)

\* the write of the decorator of spending_by_category
WritesOf(rows) ==
    IF op = "spending_by_category"
    THEN Append(writes, [file |-> DefaultFile("spending_by_category", now),
                         data |-> DataToSave(rows)])
    ELSE writes

CallOnce ==
    /\ pc = "call"
    /\ \E order \in SortOrders(TopNumericRows(table)) :
        /\ first' = OutputOf(order)
        /\ sort_order' = IF op = "get_top_transactions" THEN order ELSE <<>>
        /\ writes' = WritesOf(OutputOf(order))
    /\ table' = InputAfter(ObjectsOf).df
    /\ columns' = InputAfter(ObjectsOf).cols
    /\ pc' = "once"
    /\ UNCHANGED <<transactions, search_query, found, date_dtype, category, date, now,
                   end_date, report, raised, cards>>
    /\ UNCHANGED pageVars
    /\ UNCHANGED <<op, env, second, requests, args>>

\* the sort is deterministic: on the rows of the first call it comes out in
\* the order of the first call
CallAgain ==
    /\ pc = "once"
    /\ \E order \in SortOrders(TopNumericRows(table)) :
        /\ sort_order \in SortOrders(TopNumericRows(table)) => order = sort_order
        /\ second' = OutputOf(order)
        /\ writes' = WritesOf(OutputOf(order))
    /\ table' = InputAfter(ObjectsOf).df
    /\ columns' = InputAfter(ObjectsOf).cols
    /\ pc' = "twice"
    /\ UNCHANGED <<transactions, search_query, found, date_dtype, category, date, now,
                   end_date, report, raised, cards>>
    /\ UNCHANGED pageVars
    /\ UNCHANGED <<op, env, first, sort_order, requests, args>>

NextTwice == CallOnce \/ CallAgain

SpecTwice == InitTwice /\ [][NextTwice]_vars

\* C21: a call of spending_by_category, analyze_card_data,
\* get_top_transactions or filter_operations_by_month leaves the table it is
\* given as it was (rows, columns, values; no helper column added), and the
\* second call with the same arguments returns what the first returned.
C21_NoMutationSameOutput ==
    [][/\ table' = table
       /\ columns' = columns
       /\ pc' = "twice" => second' = first]_vars

\* C21 witness: get_top_transactions called twice on a table with an amount
\* that is not a number, which the function drops from its copy, and with two
\* rows of the same absolute amount.
C21_Witness ==
    /\ pc = "twice"
    /\ op = "get_top_transactions"
    /\ columns = required_cols
    /\ Len(table) = 2
    /\ \E i \in 1..2 : table[i].amount = TextNum
    /\ Len(first) = 1
    /\ second = first

(***************************************************************************)
(* A quote provider as a state machine: one call of one of the four        *)
(* providers on a list of symbols, with a service that has no key for it,  *)
(* fails, answers something else or answers.                               *)
(***************************************************************************)
MaxSymbols == 2

Providers ==
    {"services.get_exchange_rates", "services.get_stock_prices",
     "utils.get_currency_rates", "utils.get_stock_prices"}

ProviderApis == Apis \cup {"malformed"}

ProviderSymbols == {Symbol("USD"), Symbol("AAPL"), RubSymbol, NumberSymbol}

InitProviders ==
    /\ pc = "call"
    /\ op \in Providers
    /\ env \in ProviderApis
    /\ args \in SeqsUpTo(ProviderSymbols, MaxSymbols)
    /\ first = <<>>
    /\ second = <<>>
    /\ sort_order = <<>>
    /\ requests = <<>>
    /\ raised = FALSE
    /\ ReportIdle
    /\ SearchIdle
    /\ PageIdle

CallProvider ==
    /\ pc = "call"
    /\ first' = ProviderResult(op, args, env).value
    /\ raised' = (ProviderResult(op, args, env).raised # "no")
    /\ requests' = requests \o RequestsOf(op, args, env)
    /\ pc' = "done"
    /\ UNCHANGED <<transactions, search_query, found, table, columns, date_dtype,
                   category, date, now, end_date, report, writes, cards>>
    /\ UNCHANGED pageVars
    /\ UNCHANGED <<op, env, second, sort_order, args>>

NextProviders == CallProvider

SpecProviders == InitProviders /\ [][NextProviders]_vars

\* C22: a provider called with a list of symbols (strings) does not raise:
\* without its API key it returns the empty list and issues no request; when
\* the request fails or the answer is not what the code reads it returns a
\* list, empty when nothing was obtained.
C22_ProvidersNeverRaise ==
    (pc = "done" /\ Joinable(args)) =>
        /\ ~raised
        /\ env = "nokey" => first = <<>> /\ requests = <<>>
        /\ env \in {"error", "malformed"} => first = <<>>
        /\ Len(first) <= Len(args)

\* C22 witness: utils.get_currency_rates with a key and two currencies, the
\* request failing.
C22_Witness ==
    /\ pc = "done"
    /\ op = "utils.get_currency_rates"
    /\ env = "error"
    /\ args = <<Symbol("USD"), RubSymbol>>
    /\ requests = <<"utils.get_currency_rates">>
    /\ first = <<>>
    /\ ~raised

(***************************************************************************)
(* The calls of one main-page request.                                     *)
(***************************************************************************)
\* the places of the log at which f was called
CallsOf(f) == {i \in 1..Len(calls) : calls[i] = f}

MaxSinkRows == 2

SinkFunctions ==
    {"spending_by_category", "get_supermarket_expenses_report", "log_report_to_file"}

Disks == {"ok", "no_directory", "cannot_create", "write_fails"}

SinkRows ==
    {ReportRow(d, c, a) :
        d \in {<<2024, 7, 1, 0>>, <<2024, 1, 1, 0>>}, c \in {Supermarkets, Food},
        a \in {Num(-Rub(5, 0)), Num(Rub(1, 0))}}

CustomFile == [name |-> "custom_report.json", stamp |-> NaT]

\* what the function under log_report_to_file returns
DummyResults ==
    {Value("dict", <<[name |-> Food]>>), Value("dict", <<>>), Value("list", <<>>),
     Value("list", <<[name |-> NaN], [name |-> Food]>>), Value("frame", <<>>)}

InitSinks ==
    /\ pc = "call"
    /\ env \in Disks
    /\ \/ /\ op \in {"spending_by_category", "get_supermarket_expenses_report"}
          /\ columns \in {ReportColumns, ReportColumns \ {"mcc"}}
          /\ \E df \in SeqsUpTo(SinkRows, MaxSinkRows) : table = OnlyColumns(df, columns)
          /\ args = <<>>
       \/ /\ op = "log_report_to_file"
          /\ columns = {}
          /\ table = NoTable
          /\ args \in {[file_name |-> f, value |-> v] :
                            f \in {NoPath, CustomFile}, v \in DummyResults}
    /\ date_dtype = TRUE
    /\ category = Supermarkets
    /\ date = FullDate(<<2024, 7, 15, 0>>)
    /\ now = <<2024, 7, 15, Noon>>
    /\ end_date = NaT
    /\ report = <<>>
    /\ raised = FALSE
    /\ writes = <<>>
    /\ cards = <<>>
    /\ first = <<>>
    /\ second = <<>>
    /\ sort_order = <<>>
    /\ requests = <<>>
    /\ SearchIdle
    /\ PageIdle

\* the state in which the call of op ends
SinkCall ==
    CASE op = "spending_by_category" ->
            decorated_spending_by_category(table, columns, date_dtype, category, date, now, env)
      [] op = "get_supermarket_expenses_report" ->
            get_supermarket_expenses_report(table, columns, date_dtype, date, now, env)
      [] op = "log_report_to_file" ->
            log_report_to_file(args.file_name, "dummy_report_func",
                               CallState("no", args.value, <<>>, env), now)

\* first is the value returned together with who raised, if anyone
CallDecorated ==
    /\ pc = "call"
    /\ first' = [by |-> SinkCall.by, value |-> SinkCall.value]
    /\ raised' = (SinkCall.by # "no")
    /\ writes' = SinkCall.writes
    /\ env' = SinkCall.disk
    /\ pc' = "done"
    /\ UNCHANGED <<transactions, search_query, found, table, columns, date_dtype,
                   category, date, now, end_date, report, cards>>
    /\ UNCHANGED pageVars
    /\ UNCHANGED <<op, second, sort_order, requests, args>>

NextSinks == CallDecorated

SpecSinks == InitSinks /\ [][NextSinks]_vars

(***************************************************************************)
(* Properties of the report sinks.                                         *)
(***************************************************************************)
\* what the function under the decorator returned, when it returned
WrappedOutcome == spending_by_category(table, columns, date_dtype, category, date, now)

WrappedRaised == op # "log_report_to_file" /\ WrappedOutcome.raised

WrappedValue ==
    IF op = "log_report_to_file" THEN args.value ELSE Value("frame", WrappedOutcome.rows)

\* C24: the decorators save_report_to_file and log_report_to_file never raise
\* on their own account and hand the result of the function on unchanged,
\* whatever happens to the file.
C24_SinksNeverRaise ==
    (pc = "done" /\ ~WrappedRaised) =>
        /\ ~raised
        /\ first.value = WrappedValue

\* the write attempts made by the decorator of op itself
OwnAttempts ==
    IF op = "get_supermarket_expenses_report"
    THEN {i \in 1..Len(writes) : writes[i].file = SupermarketFile}
    ELSE {i \in 1..Len(writes) : TRUE}

\* C25: a call of a decorated function that returns has made its decorator
\* attempt exactly one write, also when the result is empty, which is written
\* as the empty list.
C25_OneWriteAttempt ==
    (pc = "done" /\ ~raised) =>
        /\ Cardinality(OwnAttempts) = 1
        /\ IsEmptyResult(first.value) => \A i \in OwnAttempts : writes[i].data = <<>>

\* C30: one call of get_supermarket_expenses_report makes two write attempts,
\* the first to the default file of spending_by_category, the second to the
\* supermarket file, both with the result of spending_by_category, and
\* returns that result whether or not the writes succeed.
C30_TwoWritesInOrder ==
    (pc = "done" /\ op = "get_supermarket_expenses_report" /\ ~WrappedRaised) =>
        /\ ~raised
        /\ first.value = WrappedValue
        /\ Len(writes) = 2
        /\ writes[1].file = DefaultFile("spending_by_category", now)
        /\ writes[2].file = SupermarketFile
        /\ writes[1].data = SavedData(WrappedValue)
        /\ writes[2].data = SavedData(WrappedValue)

(***************************************************************************)
(* views.py: generate_search_json                                          *)
(***************************************************************************)
\* json.dumps({"search_results": items}): an object with one key
JsonObject(items) == [json |-> "object", value |-> items]

\* json.dumps(items) for a list
JsonList(items) == [json |-> "list", value |-> items]

\* DataFrame.to_dict('records'): one dictionary per row with a key for every
\* column of the table; the table has a date column when it gets here
ToDictRecords(loaded) ==
    [i \in 1..Len(loaded.df) |->
        [date |-> loaded.df[i].date,
         amount |-> IF "amount" \in loaded.cols THEN loaded.df[i].amount ELSE NoneNum,
         cat |-> IF "category" \in loaded.cols THEN loaded.df[i].cat ELSE Absent,
         mcc |-> IF "mcc" \in loaded.cols THEN loaded.df[i].mcc ELSE NoneNum,
         desc |-> IF "description" \in loaded.cols THEN loaded.df[i].desc ELSE Absent]]

\* filtered_operations_df of line 227, when the call gets there
FilteredOperations(date_str, f, df, cols) ==
    LET all_operations_df == load_operations_data(f, df, cols)
    IN  IF IsEmpty(all_operations_df.df, all_operations_df.cols) THEN EmptyDataFrame
        ELSE filter_operations_by_month(all_operations_df, date_str)

\* the body of generate_search_json, lines 218-243
generate_search_json(query, date_str, f, df, cols) ==
    LET all_operations_df == load_operations_data(f, df, cols)
    IN  IF IsEmpty(all_operations_df.df, all_operations_df.cols)
        THEN JsonObject(<<>>)
        ELSE LET filtered_operations_df ==
                     filter_operations_by_month(all_operations_df, date_str)
             IN  IF IsEmpty(filtered_operations_df.df, filtered_operations_df.cols)
                 THEN JsonObject(<<>>)
                 ELSE JsonList(simple_search_transactions(
                                   ToDictRecords(filtered_operations_df), query))

(***************************************************************************)
(* The search page as a state machine: one call of generate_search_json on *)
(* a file, a sheet, a date string and a query chosen at the start.         *)
(***************************************************************************)
MaxPageRows == 3

\* the end date of the request
PageEnd == <<2024, 7, 15, 14 * 3600>>

\* operation dates: the first second of the month, the end date itself, one
\* second after it, the last second of the month before, and no date
PageCells ==
    {FullDate(<<2024, 7, 1, 0>>), FullDate(PageEnd),
     FullDate(<<2024, 7, 15, 14 * 3600 + 1>>), FullDate(<<2024, 6, 30, 86399>>),
     Garbage}

PageRows ==
    {[date |-> d, cat |-> Food, amount |-> Num(-Rub(10, 0)), desc |-> t,
      mcc |-> Num(5411)] : d \in PageCells, t \in {Taxi, Shop}}

PageColumnSets ==
    {LoaderColumns, LoaderColumns \ {"date"}, LoaderColumns \ {"description"}}

PageQueries == {<<"t", "a", "x">>, <<"o">>}

InitSearchPage ==
    /\ pc = "call"
    /\ CallIdle
    /\ time_str \in {FullDate(PageEnd), Garbage}
    /\ search_query \in PageQueries
    /\ \/ /\ file \in {MissingFile, CorruptFile}
          /\ table = NoTable
          /\ columns = {}
       \/ /\ file = SheetFile
          /\ table \in SeqsUpTo(PageRows, MaxPageRows)
          /\ columns \in PageColumnSets
    /\ response = <<>>
    /\ transactions = <<>>
    /\ found = <<>>
    /\ settings = NoFile
    /\ calls = <<>>
    /\ raised = FALSE
    /\ top_n = 0
    /\ top = <<>>
    /\ greeting = ""
    /\ date_dtype = TRUE
    /\ category = NoText
    /\ date = NoDate
    /\ now = NaT
    /\ end_date = NaT
    /\ report = <<>>
    /\ writes = <<>>
    /\ cards = <<>>

\* one call; transactions is filtered_operations_df as it stood when the
\* call ended (no rows when the call returned before line 227)
GenerateSearchJson ==
    /\ pc = "call"
    /\ response' = generate_search_json(search_query, time_str, file, table, columns)
    /\ transactions' = FilteredOperations(time_str, file, table, columns).df
    /\ pc' = "done"
    /\ UNCHANGED callVars
    /\ UNCHANGED <<search_query, found, table, columns, date_dtype,
                   category, date, now, end_date, report, raised, writes, cards>>
    /\ UNCHANGED <<top_n, top, time_str, greeting, file, settings, calls>>

NextSearchPage == GenerateSearchJson

SpecSearchPage == InitSearchPage /\ [][NextSearchPage]_vars

(***************************************************************************)
(* Properties of the search page.                                          *)
(***************************************************************************)
\* C26: the response of a search request is a list of matched-transaction
\* records on every path, the empty list when the table cannot be loaded or
\* the window has no rows.
C26_AlwaysAList ==
    pc = "done" => response.json = "list"

\* seconds since the year 2000 on a scale on which every month has 31 days
Stamp(ts) == (((ts[1] - 2000) * 12 + ts[2]) * 31 + ts[3]) * 86400 + ts[4]

\* the rows of the sheet dated from the first second of the month of e to e
WindowRowsOfTable(e) ==
    {i \in 1..Len(table) :
        /\ table[i].date.kind = "full"
        /\ Stamp(<<e[1], e[2], 1, 0>>) <= Stamp(table[i].date.ts)
        /\ Stamp(table[i].date.ts) <= Stamp(e)}

MalformedKinds == {"garbage", "empty", "dateonly"}

\* C27: get_greeting called with a malformed time string returns a fallback
\* value; the failure to parse never reaches the caller.
C27_MalformedNeverRaised ==
    (pc = "done" /\ time_str.kind \in MalformedKinds) => ~raised

NumericRowsOfTable == {i \in 1..Len(table) : ToNumeric(table[i].amount).k = "num"}

\* C28: entries of equal absolute amount are in the order of their rows in
\* the table, and a row left out is never earlier in the table than an entry
\* of the same absolute amount.
C28_StableTies ==
    (pc = "done" /\ top_n >= 0) =>
        \E f \in TopProvenances :
            /\ \A k, l \in 1..Len(top) :
                (k < l /\ AbsAmount(f[k]) = AbsAmount(f[l])) => f[k] < f[l]
            /\ \A i \in NumericRowsOfTable :
                (\A k \in 1..Len(top) : f[k] # i) =>
                    \A k \in 1..Len(top) : AbsAmount(i) = AbsAmount(f[k]) => f[k] < i

====
